---- MODULE Spec2Model ----
(***************************************************************************)
(* Model of mongo-dataculpa.py: the "--run" path (do_run, FetchCollection) *)
(* together with the SessionHistory cache (sqlite table "cache") and the   *)
(* sink sessions opened through Config.connect_controller.                 *)
(***************************************************************************)
EXTENDS Integers, Sequences, FiniteSets, TLC

(* ---------------- bounds of the model ---------------- *)
MaxRecs == 3
MaxInvocations == 2

(* ---------------- scales ---------------- *)
\* ticks per calendar day: datetime.date() / generation_time.date()
DayLen == 2
\* the tick of datetime.utcnow()
NowTick == 19

(* ---------------- values found in documents ---------------- *)
\* a BSON value is a kind and an ordinal inside the kind
None == [k |-> "none", v |-> 0]
Oid(n) == [k |-> "oid", v |-> n]
Date(n) == [k |-> "date", v |-> n]
Str(n) == [k |-> "str", v |-> n]
\* BSON JavaScript code: pymongo decodes it to bson.code.Code, a subclass of str
Code(n) == [k |-> "code", v |-> n]

\* the documents the collections may hold (field _id, optional field ts)
RecordPool ==
    { [id |-> Oid(1),  ts |-> Date(6)],
      [id |-> Oid(2),  ts |-> Date(2)],
      [id |-> Oid(3),  ts |-> Date(3)],
      [id |-> Oid(4),  ts |-> Str(1)],
      [id |-> Str(1),  ts |-> Code(1)],
      [id |-> Date(1), ts |-> None] }

StreamNames == {"a", "b"}

PoolOf(name) ==
    IF name = "a" THEN RecordPool
    ELSE { r \in RecordPool : r.id \in {Oid(1), Oid(3), Str(1)} }

\* r.get(field): None when the document has no such field
Get(r, field) == IF field = "_id" THEN r.id ELSE r.ts

\* BSON comparison order of the kinds:
\* Null < String < ObjectId < Date < JavaScript code
TypeRank(k) ==
    CASE k = "none" -> 1
      [] k = "str"  -> 3
      [] k = "oid"  -> 4
      [] k = "date" -> 5
      [] k = "code" -> 6

BsonLess(x, y) ==
    \/ TypeRank(x.k) < TypeRank(y.k)
    \/ x.k = y.k /\ x.v < y.v

\* $gte in place of $gt
GtMatch_ge(x, fv) == x.k = fv.k /\ x.v >= fv.v

\* $lt in place of $gt
GtMatch_lt(x, fv) == x.k = fv.k /\ x.v < fv.v

\* { field: { '$gt': fv } }: matches values of the same kind that are greater
GtMatch(x, fv) == x.k = fv.k /\ x.v > fv.v

\* marker_pair is None
NoPair == <<"None", None>>

\* collection.find(query_constraints): query_constraints is {} or {fk: {$gt: fv}}
Find(docs, marker) ==
    IF marker = NoPair THEN docs
    ELSE { r \in docs : GtMatch(Get(r, marker[1]), marker[2]) }

\* .sort(field, ASCENDING)
RECURSIVE SortAsc(_, _)
SortAsc(docs, field) ==
    IF docs = {} THEN << >>
    ELSE LET m == CHOOSE r \in docs :
                    \A q \in docs : ~ BsonLess(Get(q, field), Get(r, field))
         IN  <<m>> \o SortAsc(docs \ {m}, field)

\* datetime.date() and ObjectId.generation_time.date()
DateOf(x) == x.v \div DayLen

(* ---------------- the cache file ---------------- *)
pickle_dumps(fv) == <<"pickle", fv.k, fv.v>>

\* a reader that takes every stored value for a string
pickle_loads_untyped(b) == [k |-> "str", v |-> b[3]]

pickle_loads(b) == [k |-> b[2], v |-> b[3]]

(* ---------------- configuration ---------------- *)
ConfigsA ==
    { [collection |-> "a", dataculpa_watchpoint |-> "wa", enabled |-> e,
       use_timeshift |-> u, timeshift_field |-> f] :
        e \in BOOLEAN, u \in BOOLEAN, f \in {"None", "_id", "ts"} }

ConfigsB ==
    { [collection |-> "b", dataculpa_watchpoint |-> "wb", enabled |-> TRUE,
       use_timeshift |-> u, timeshift_field |-> "None"] : u \in BOOLEAN }

Creds == {"ok", "no_api_key", "no_secret"}

NoDate == -1

VARIABLES
    collection_config,  \* Config.get_db_collection_config()
    creds,              \* api_key in the yaml and DC_API_SECRET in the environment
    coll,               \* the documents of each source collection
    tables,             \* the tables of the sqlite cache file
    cache,              \* rows of table cache: object_name -> <<field_name, field_value>>
    history,            \* gCache.history
    pc,                 \* position of the process
    rc,                 \* exit status of the last process
    idx,                \* position of do_run's loop in collection_config
    result,             \* the rest of the cursor
    marker_pair, timeshift_field, last_id, last_date, record_count, dc,
    sessions,           \* the sink sessions opened by this process
    queried,            \* the collections this process has issued find() on
    fetched,            \* the collections this process has called FetchCollection for
    ran,                \* position in collection_config of the last FetchCollection call
    invocations,        \* number of processes started
    yielded,            \* what the cursor of the current FetchCollection held
    wmBefore,           \* the cache rows when the current FetchCollection started
    cacheAtStart,       \* the cache rows when the process started
    lastPut,            \* the last (field, value) given to add_history + save
    pushedEarlier       \* documents pushed by completed FetchCollection calls

vars == <<collection_config, creds, coll, tables, cache, history, pc, rc, idx,
          result, marker_pair, timeshift_field, last_id, last_date,
          record_count, dc, sessions, queried, fetched, ran, invocations,
          yielded, wmBefore, cacheAtStart, lastPut, pushedEarlier>>

cfgVars == <<collection_config, creds>>
locals == <<result, marker_pair, timeshift_field, last_id, last_date,
            record_count, dc>>

cc == collection_config[idx]
name == cc.collection
watchpoint == cc.dataculpa_watchpoint
use_timeshift == cc.use_timeshift

(* ---------------- SessionHistory ---------------- *)
\* the pair is stored under every key
add_history_all(h, table_name, field, value) ==
    [t \in DOMAIN h \cup {table_name} |-> <<field, value>>]

\* self.history[table_name] = (field, value)
add_history(h, table_name, field, value) ==
    [t \in DOMAIN h \cup {table_name} |->
        IF t = table_name THEN <<field, value>> ELSE h[t]]

\* self.history.get(table_name)
get_history(h, table_name) ==
    IF table_name \in DOMAIN h THEN h[table_name] ELSE NoPair

\* create table cache / create table sql_log when missing
handle_new_cache(tbls) == tbls \cup {"cache", "sql_log"}

\* a plain insert: a row that exists is kept
save_insert_only(rows, h) ==
    [t \in DOMAIN rows \cup DOMAIN h |->
        IF t \in DOMAIN rows THEN rows[t] ELSE <<h[t][1], pickle_dumps(h[t][2])>>]

\* insert or replace into cache, one row for each item of self.history
save(rows, h) ==
    [t \in DOMAIN rows \cup DOMAIN h |->
        IF t \in DOMAIN h THEN <<h[t][1], pickle_dumps(h[t][2])>> ELSE rows[t]]

\* the rows of the file are not read
load_nothing(h, rows) == h

\* select object_name, field_name, field_value from cache; add_history each
load(h, rows) ==
    [t \in DOMAIN h \cup DOMAIN rows |->
        IF t \in DOMAIN rows THEN <<rows[t][1], pickle_loads(rows[t][2])>> ELSE h[t]]

(* ---------------- the sink ---------------- *)
\* DataCulpaValidator(pipeline_name, ..., timeshift=timeshift)
NewSession(pipeline_name, timeshift) ==
    [wp |-> pipeline_name, timeshift |-> timeshift, recs |-> << >>,
     commits |-> 0, server_result |-> "none"]

\* what the server answers to a commit: (_queue_id, _result)
CommitResults == {"ok", "error"}

\* a commit that is sent again when the server answers with an error
queue_commit_retry(ss, d, res) ==
    [ss EXCEPT ![d].commits = IF res = "error" THEN @ + 2 ELSE @ + 1,
               ![d].server_result = res]

\* a commit that never reaches the session
queue_commit_lost(ss, d, res) == ss

\* (_queue_id, _result) = dc.queue_commit(); the result is only printed
queue_commit(ss, d, res) ==
    [ss EXCEPT ![d].commits = @ + 1, ![d].server_result = res]

\* dc.queue_record(r, ...)
queue_record(ss, d, r) == [ss EXCEPT ![d].recs = Append(@, r)]

\* the string branch is never taken
IsStr_never(x) == FALSE

\* isinstance(this_id, str)
IsStr(x) == x.k \in {"str", "code"}

\* isinstance(this_id, datetime) or isinstance(this_id, bson.ObjectId)
HasDate(x) == x.k \in {"date", "oid"}

\* the enabled flag is ignored
Enabled_always(c) == TRUE

\* if not enabled: continue
Enabled(c) == c.enabled

\* the day is never seen to move
DayMoved_never(ld, td) == FALSE

\* the string case only leaves the loop of its collection
AfterAbort_next(out) == IF out = "exit2" THEN "finish" ELSE "idle"

\* os._exit, FatalError and an uncaught exception end the process
AfterAbort(out) == "idle"

\* if last_date is not None and this_date != last_date
DayMoved(ld, td) == ld # NoDate /\ td # ld

\* timeshift_field as FetchCollection uses it
EffField(c) ==
    IF c.use_timeshift /\ c.timeshift_field = "None" THEN "_id"
    ELSE c.timeshift_field

\* The body of FetchCollection's for loop on document r; res is what the
\* server answers if the body commits
\* out: "next" (the body ran to its end), "exit2" (os._exit(2) on a string),
\* "fatal" (FatalError in connect_controller), "raise" (this_date is None)
LoopBody(r, res) ==
    LET this_id == Get(r, timeshift_field)
        this_date == IF HasDate(this_id) THEN DateOf(this_id) ELSE NoDate
        boundary == use_timeshift /\ DayMoved(last_date, this_date)
        ss1 == IF boundary THEN queue_commit(sessions, dc, res) ELSE sessions
        dc1 == IF boundary THEN 0 ELSE dc
        dt == NowTick - this_date * DayLen
        ss2 == IF dc1 = 0
               THEN Append(ss1, NewSession(watchpoint,
                                           IF use_timeshift THEN dt ELSE 0))
               ELSE ss1
        dc2 == IF dc1 = 0 THEN Len(ss2) ELSE dc1
    IN  IF use_timeshift /\ IsStr(this_id)
        THEN [out |-> "exit2", ss |-> sessions, d |-> dc, ld |-> last_date]
        ELSE IF use_timeshift /\ dc1 = 0 /\ this_date = NoDate
        THEN [out |-> "raise", ss |-> ss1, d |-> dc1, ld |-> last_date]
        ELSE IF dc1 = 0 /\ creds # "ok"
        THEN [out |-> "fatal", ss |-> ss1, d |-> dc1, ld |-> last_date]
        ELSE [out |-> "next", ss |-> queue_record(ss2, dc2, r), d |-> dc2,
              ld |-> IF use_timeshift THEN this_date ELSE last_date]

\* the documents pushed to the sessions of a watchpoint
RECURSIVE Pushed(_, _)
Pushed(ss, w) ==
    IF ss = << >> THEN {}
    ELSE (IF Head(ss).wp = w THEN {Head(ss).recs[i] : i \in 1..Len(Head(ss).recs)}
          ELSE {}) \cup Pushed(Tail(ss), w)

Init ==
    /\ collection_config \in { <<a, b>> : a \in ConfigsA, b \in ConfigsB }
    /\ creds \in Creds
    /\ coll = [s \in StreamNames |-> {}]
    /\ tables = {}
    /\ cache = << >>
    /\ history = << >>
    /\ pc = "idle"
    /\ rc = 0
    /\ idx = 1
    /\ result = << >>
    /\ marker_pair = NoPair
    /\ timeshift_field = "None"
    /\ last_id = None
    /\ last_date = NoDate
    /\ record_count = 0
    /\ dc = 0
    /\ sessions = << >>
    /\ queried = {}
    /\ fetched = {}
    /\ ran = 0
    /\ invocations = 0
    /\ yielded = << >>
    /\ wmBefore = << >>
    /\ cacheAtStart = << >>
    /\ lastPut = << >>
    /\ pushedEarlier = [s \in StreamNames |-> {}]

\* a document is inserted into a collection while no process runs
Insert ==
    /\ pc = "idle"
    /\ invocations < MaxInvocations
    /\ \E s \in StreamNames : \E r \in PoolOf(s) \ coll[s] :
          /\ Cardinality(coll[s]) < MaxRecs
          /\ coll' = [coll EXCEPT ![s] = @ \cup {r}]
    /\ UNCHANGED <<cfgVars, tables, cache, history, pc, rc, idx, locals,
                   sessions, queried, fetched, ran, invocations, yielded, wmBefore,
                   cacheAtStart, lastPut, pushedEarlier>>

\* no FetchCollection frame is live
ResetLocals ==
    /\ result' = << >>
    /\ marker_pair' = NoPair
    /\ timeshift_field' = "None"
    /\ last_id' = None
    /\ last_date' = NoDate
    /\ record_count' = 0
    /\ dc' = 0

\* a process starts: main() with --run, do_run up to its for loop
DoRun ==
    /\ pc = "idle"
    /\ invocations < MaxInvocations
    /\ invocations' = invocations + 1
    /\ history' = << >>
    /\ sessions' = << >>
    /\ queried' = {}
    /\ fetched' = {}
    /\ ran' = 0
    /\ idx' = 1
    /\ rc' = 0
    /\ pc' = "loop"
    /\ cacheAtStart' = cache
    /\ ResetLocals
    /\ yielded' = << >>
    /\ wmBefore' = cache
    /\ UNCHANGED <<cfgVars, coll, tables, cache, lastPut, pushedEarlier>>

\* do_run: the loop is over, the process ends
DoRunReturn ==
    /\ pc = "loop"
    /\ idx > Len(collection_config)
    /\ pc' = "idle"
    /\ rc' = 0
    /\ UNCHANGED <<cfgVars, coll, tables, cache, history, idx, locals, sessions,
                   queried, fetched, ran, invocations, yielded, wmBefore,
                   cacheAtStart, lastPut, pushedEarlier>>

\* do_run: a collection with enabled set to False is skipped
SkipDisabled ==
    /\ pc = "loop"
    /\ idx <= Len(collection_config)
    /\ ~ Enabled(cc)
    /\ idx' = idx + 1
    /\ UNCHANGED <<cfgVars, coll, tables, cache, history, pc, rc, locals,
                   sessions, queried, fetched, ran, invocations, yielded, wmBefore,
                   cacheAtStart, lastPut, pushedEarlier>>

\* FetchCollection up to its for loop: load, marker, query
FetchBegin ==
    /\ pc = "loop"
    /\ idx <= Len(collection_config)
    /\ Enabled(cc)
    /\ LET h == load(history, cache)
           mp == get_history(h, name)
           tf == EffField(cc)
           res == SortAsc(Find(coll[name], mp), tf)
       IN  /\ tables' = handle_new_cache(tables)
           /\ history' = h
           /\ marker_pair' = mp
           /\ timeshift_field' = tf
           /\ fetched' = fetched \cup {name}
           /\ ran' = idx
           /\ wmBefore' = cache
           /\ last_id' = None
           /\ last_date' = NoDate
           /\ record_count' = 0
           /\ dc' = 0
           /\ IF tf = "None"
              THEN \* result is not bound: "for r in result" raises
                   /\ pc' = "idle"
                   /\ rc' = 1
                   /\ yielded' = << >>
                   /\ UNCHANGED <<result, queried>>
              ELSE /\ pc' = "iter"
                   /\ result' = res
                   /\ yielded' = res
                   /\ queried' = queried \cup {name}
                   /\ rc' = rc
    /\ UNCHANGED <<cfgVars, coll, cache, idx, sessions, invocations,
                   cacheAtStart, lastPut, pushedEarlier>>

\* one pass of "for r in result"
IterRecord ==
    /\ pc = "iter"
    /\ result # << >>
    /\ \E res \in CommitResults :
       LET r == Head(result)
           b == LoopBody(r, res)
       IN  /\ last_id' = IF record_count = 0 THEN Get(r, "_id") ELSE last_id
           /\ record_count' = record_count + 1
           /\ sessions' = b.ss
           /\ dc' = b.d
           /\ last_date' = b.ld
           /\ IF b.out = "next"
              THEN /\ result' = Tail(result)
                   /\ UNCHANGED <<pc, rc>>
              ELSE /\ pc' = AfterAbort(b.out)
                   /\ rc' = IF b.out = "raise" THEN 1 ELSE 2
                   /\ UNCHANGED result
    /\ UNCHANGED <<cfgVars, coll, tables, cache, history, idx, marker_pair,
                   timeshift_field, queried, fetched, ran, invocations, yielded,
                   wmBefore, cacheAtStart, lastPut, pushedEarlier>>

\* after the loop: "if last_id is not None: add_history; save"
Checkpoint ==
    /\ pc = "iter"
    /\ result = << >>
    /\ pc' = "finish"
    /\ IF last_id # None
       THEN LET h == add_history(history, name, "_id", last_id)
            IN  /\ history' = h
                /\ tables' = handle_new_cache(tables)
                /\ cache' = save(cache, h)
                /\ lastPut' = add_history(lastPut, name, "_id", last_id)
       ELSE UNCHANGED <<history, tables, cache, lastPut>>
    /\ UNCHANGED <<cfgVars, coll, rc, idx, locals, sessions, queried, fetched,
                   ran, invocations, yielded, wmBefore, cacheAtStart, pushedEarlier>>

\* "if dc is not None: dc.queue_commit()", return to do_run's loop
Finish ==
    /\ pc = "finish"
    /\ \E res \in CommitResults :
          sessions' = IF dc # 0 THEN queue_commit(sessions, dc, res) ELSE sessions
    /\ pushedEarlier' = [pushedEarlier EXCEPT
                            ![name] = @ \cup Pushed(sessions, watchpoint)]
    /\ pc' = "loop"
    /\ idx' = idx + 1
    /\ ResetLocals
    /\ UNCHANGED <<cfgVars, coll, tables, cache, history, rc, queried,
                   fetched, ran, invocations, yielded, wmBefore, cacheAtStart, lastPut>>

Next ==
    \/ Insert
    \/ DoRun
    \/ DoRunReturn
    \/ SkipDisabled
    \/ FetchBegin
    \/ IterRecord
    \/ Checkpoint
    \/ Finish

Spec == Init /\ [][Next]_vars

TypeOK ==
    /\ pc \in {"idle", "loop", "iter", "finish"}
    /\ rc \in {0, 1, 2}
    /\ \A s \in StreamNames : coll[s] \subseteq PoolOf(s)
    /\ dc \in 0..Len(sessions)

(* ---------------- helpers of the properties ---------------- *)
\* the entry of collection_config of the last FetchCollection call
ranCfg == collection_config[ran]

\* the last FetchCollection call has returned to do_run
Returned == ran # 0 /\ idx > ran

\* a FetchCollection call is between its query and its return
InFetch == pc \in {"iter", "finish"}

\* the sessions opened for a watchpoint, in the order they were opened
SessionsOf(w) == SelectSeq(sessions, LAMBDA x : x.wp = w)

\* every session has been committed
AllCommitted == \A i \in 1..Len(sessions) : sessions[i].commits >= 1

\* the row of a collection in the cache table, NoPair when there is none
Row(rows, n) == IF n \in DOMAIN rows THEN rows[n] ELSE NoPair

\* the collection holds no document beyond the watermark the call started from
NothingNew(c) ==
    LET n == c.collection
    IN  IF n \in DOMAIN wmBefore
        THEN \A r \in coll[n] :
                ~ BsonLess(pickle_loads(wmBefore[n][2]), Get(r, wmBefore[n][1]))
        ELSE coll[n] = {}

\* the maximal runs of consecutive documents with equal calendar day
RECURSIVE DayRuns(_, _)
DayRuns(seq, f) ==
    IF seq = << >> THEN << >>
    ELSE LET prev == DayRuns(SubSeq(seq, 1, Len(seq) - 1), f)
             r == seq[Len(seq)]
         IN  IF Len(seq) > 1
                /\ DateOf(Get(seq[Len(seq) - 1], f)) = DateOf(Get(r, f))
             THEN [prev EXCEPT ![Len(prev)] = Append(@, r)]
             ELSE Append(prev, <<r>>)

\* os._exit(2) on a string-valued timeshift field is where the process ended
AbortedOnString ==
    /\ pc = "idle" /\ rc = 2 /\ ran # 0 /\ ran = idx
    /\ result # << >>
    /\ ranCfg.use_timeshift
    /\ Get(Head(result), timeshift_field).k \in {"str", "code"}

(* ---------------- properties ---------------- *)

\* C1: after the loop of a FetchCollection call that saw at least one
\* document, the cache row of the collection holds the value that the LAST
\* document the cursor yielded has in the field the row names.
C1_LastRecordPersisted ==
    (pc = "finish" /\ yielded # << >>) =>
        /\ name \in DOMAIN cache
        /\ pickle_loads(cache[name][2])
             = Get(yielded[Len(yielded)], cache[name][1])

\* C2: a FetchCollection call pushes no document that a completed earlier
\* call for the same collection has pushed.
C2_NoRepush ==
    InFetch => Pushed(sessions, watchpoint) \cap pushedEarlier[name] = {}

\* C3: whenever the cache table is written, every session the process has
\* opened has been committed.
C3_WatermarkAfterCommits ==
    [][cache' # cache => AllCommitted]_vars

\* C4: a FetchCollection call for a collection that holds nothing beyond the
\* watermark opens no session (so nothing is pushed or committed) and leaves
\* the cache row of the collection as it was.
C4_NoOpRun ==
    (ran # 0 /\ NothingNew(ranCfg)) =>
        /\ SessionsOf(ranCfg.dataculpa_watchpoint) = << >>
        /\ Row(cache, ranCfg.collection) = Row(wmBefore, ranCfg.collection)

C4_Witness ==
    /\ Returned /\ pc = "loop"
    /\ ranCfg.collection \in DOMAIN wmBefore
    /\ coll[ranCfg.collection] # {}
    /\ NothingNew(ranCfg)

\* C5: a cache row is never removed and its value never decreases in the
\* order of the values.
C5_Monotonic ==
    [][\A s \in DOMAIN cache :
          /\ s \in DOMAIN cache'
          /\ ~ BsonLess(pickle_loads(cache'[s][2]), pickle_loads(cache[s][2]))]_vars

C5_Witness ==
    /\ Returned
    /\ ranCfg.collection \in DOMAIN wmBefore
    /\ BsonLess(pickle_loads(wmBefore[ranCfg.collection][2]),
                pickle_loads(cache[ranCfg.collection][2]))

\* the documents of the last call all carry a calendar day
AllDated ==
    \A i \in 1..Len(yielded) : Get(yielded[i], EffField(ranCfg)).k \in {"date", "oid"}

\* C6: with use_timeshift, a FetchCollection call that returned has opened
\* one session for each maximal run of documents with equal day, each
\* session holds the documents of its run in order and is committed once.
C6_BucketSessions ==
    (Returned /\ ranCfg.use_timeshift /\ AllDated) =>
        LET ss == SessionsOf(ranCfg.dataculpa_watchpoint)
        IN  /\ [i \in 1..Len(ss) |-> ss[i].recs] = DayRuns(yielded, EffField(ranCfg))
            /\ \A i \in 1..Len(ss) : ss[i].commits = 1

C6_Witness ==
    /\ Returned /\ ranCfg.use_timeshift /\ AllDated
    /\ Len(SessionsOf(ranCfg.dataculpa_watchpoint)) >= 2
    /\ \E i \in 1..Len(sessions) : Len(sessions[i].recs) >= 2

\* C7: under use_timeshift a document whose timeshift field is a string ends
\* the process with status 2 in that pass of the loop, without pushing the
\* document and without writing the cache; the cache rows are then those
\* from before the call.
C7_StringAborts ==
    /\ [][(/\ pc = "iter" /\ result # << >> /\ use_timeshift
            /\ Get(Head(result), timeshift_field).k \in {"str", "code"})
          => (/\ pc' = "idle" /\ rc' = 2
              /\ sessions' = sessions /\ cache' = cache)]_vars
    /\ [](AbortedOnString =>
            /\ cache = wmBefore
            /\ Head(result) \notin Pushed(sessions, ranCfg.dataculpa_watchpoint))

C7_Witness ==
    /\ AbortedOnString
    /\ dc # 0 /\ sessions[dc].recs # << >>

\* C8: when a process has ended, every session that received a document has
\* been committed.
C8_NoAbandonedSession ==
    pc = "idle" =>
        \A i \in 1..Len(sessions) :
            sessions[i].recs # << >> => sessions[i].commits >= 1

C10_RoundTrip ==
    (pc = "iter" /\ name \in DOMAIN lastPut) => marker_pair = lastPut[name]

C10_Witness ==
    /\ pc = "iter" /\ name \in DOMAIN lastPut
    /\ marker_pair[2].k = "date"
    /\ invocations = 2

\* C11: with api_key or DC_API_SECRET missing, a process that has ended has
\* ended with a nonzero status and has touched no collection: it has issued
\* no query, opened no session and written no cache row.
C11_ConfigErrorFirst ==
    (creds # "ok" /\ invocations > 0 /\ pc = "idle") =>
        /\ rc # 0
        /\ queried = {}
        /\ sessions = << >>
        /\ cache = cacheAtStart

\* the entry of collection_config a session was opened for
CfgOfWp(w) ==
    CHOOSE c \in {collection_config[i] : i \in 1..Len(collection_config)} :
        c.dataculpa_watchpoint = w

\* the cache row that the last call wrote, or left, given only its cursor
RowAfterRun ==
    IF yielded = << >> THEN Row(wmBefore, ranCfg.collection)
    ELSE <<"_id", pickle_dumps(Get(yielded[1], "_id"))>>

\* a session of the last call got an error for its commit
CommitFailed ==
    /\ ran # 0
    /\ \E i \in 1..Len(sessions) :
          /\ sessions[i].wp = ranCfg.dataculpa_watchpoint
          /\ sessions[i].server_result = "error"

\* C12: no session is committed more than once, and after a commit that the
\* server answered with an error the call goes on as without the error: the
\* process does not end because of it, and once the loop is over the cache
\* row is the one the cursor alone determines.
C12_CommitErrorIgnored ==
    /\ \A i \in 1..Len(sessions) : sessions[i].commits <= 1
    /\ CommitFailed =>
          /\ (pc = "idle" /\ rc # 0 /\ ran = idx) =>
                /\ result # << >>
                /\ ranCfg.use_timeshift
                /\ Get(Head(result), timeshift_field).k \notin {"date", "oid"}
          /\ (Returned \/ pc = "finish") =>
                Row(cache, ranCfg.collection) = RowAfterRun

C12_Witness ==
    /\ Returned /\ CommitFailed
    /\ Len(SessionsOf(ranCfg.dataculpa_watchpoint)) >= 2
    /\ SessionsOf(ranCfg.dataculpa_watchpoint)[1].server_result = "error"
    /\ Row(cache, ranCfg.collection) # Row(wmBefore, ranCfg.collection)

\* C13: a session is committed at most once and only with documents in it,
\* gets no document after its commit, and when the process has ended every
\* session holds documents and has been committed exactly once.
C13_SessionProtocol ==
    /\ [](\A i \in 1..Len(sessions) :
            /\ sessions[i].commits <= 1
            /\ sessions[i].commits = 1 => sessions[i].recs # << >>)
    /\ [](pc = "idle" =>
            \A i \in 1..Len(sessions) :
                sessions[i].recs # << >> /\ sessions[i].commits = 1)
    /\ [][\A i \in 1..Len(sessions) :
            (sessions[i].commits >= 1 /\ i <= Len(sessions')) =>
                sessions'[i].recs = sessions[i].recs]_vars

\* C14: only the session opened last can be without a commit, so at most one
\* session is open and a session is committed before the next one is opened;
\* under use_timeshift the documents of a session are all of one day.
C14_OneOpenSession ==
    /\ \A i \in 1..(Len(sessions) - 1) : sessions[i].commits >= 1
    /\ Cardinality({i \in 1..Len(sessions) : sessions[i].commits = 0}) <= 1
    /\ \A i \in 1..Len(sessions) :
          CfgOfWp(sessions[i].wp).use_timeshift =>
            \A j, k \in 1..Len(sessions[i].recs) :
                LET f == EffField(CfgOfWp(sessions[i].wp))
                    x == Get(sessions[i].recs[j], f)
                    y == Get(sessions[i].recs[k], f)
                IN  /\ x.k \in {"date", "oid"}
                    /\ x.v \div DayLen = y.v \div DayLen

C14_Witness ==
    /\ pc = "iter" /\ use_timeshift
    /\ Len(sessions) >= 2
    /\ dc = Len(sessions)
    /\ sessions[dc].commits = 0
    /\ sessions[dc - 1].wp = sessions[dc].wp
    /\ sessions[dc - 1].commits = 1

\* C15: in a FetchCollection call the field of the $gt filter, the field the
\* cursor is sorted by and the field named in the cache row are the
\* configured timeshift field (_id when none is configured); without a cache
\* row the cursor holds the whole collection.
C15_OneWatermarkField ==
    InFetch =>
        LET f == IF cc.timeshift_field = "None" THEN "_id" ELSE cc.timeshift_field
        IN  /\ timeshift_field = f
            /\ marker_pair # NoPair => marker_pair[1] = f
            /\ marker_pair = NoPair => Len(yielded) = Cardinality(coll[name])
            /\ (pc = "finish" /\ yielded # << >>) => Row(cache, name)[1] = f

\* the cache row that holds what was last put for a collection
PutRow(n) == <<lastPut[n][1], pickle_dumps(lastPut[n][2])>>

\* C16: the pass of the loop that meets a string under use_timeshift ends the
\* process (status 2) without going on to another collection; in the ended
\* process no collection configured after that one has been fetched, queried
\* or pushed to, and the collections before it have the cache row their
\* call saved.
C16_StringAbortFatal ==
    /\ [][(/\ pc = "iter" /\ result # << >> /\ use_timeshift
            /\ Get(Head(result), timeshift_field).k \in {"str", "code"})
          => (pc' = "idle" /\ rc' = 2 /\ UNCHANGED <<idx, queried, fetched>>)]_vars
    /\ [](AbortedOnString =>
            /\ \A j \in (ran + 1)..Len(collection_config) :
                  /\ collection_config[j].collection \notin queried \cup fetched
                  /\ SessionsOf(collection_config[j].dataculpa_watchpoint) = << >>
            /\ \A j \in 1..(ran - 1) :
                  collection_config[j].collection \in DOMAIN lastPut =>
                      Row(cache, collection_config[j].collection)
                        = PutRow(collection_config[j].collection))

C16_Witness ==
    /\ AbortedOnString
    /\ ran = 2
    /\ "a" \in fetched
    /\ Row(cache, "a") # Row(cacheAtStart, "a")

\* C17: the cache row of a collection changes only in the step after the
\* loop of the FetchCollection call for that collection.
C17_OtherRowsKept ==
    [][\A s \in StreamNames :
          Row(cache', s) # Row(cache, s) => (pc = "iter" /\ s = name)]_vars

C17_Witness ==
    /\ pc = "finish" /\ name = "b"
    /\ "a" \in DOMAIN history /\ "a" \in DOMAIN wmBefore
    /\ Row(cache, "b") # Row(wmBefore, "b")

\* C18: the cache table (one row for each object_name) holds for each
\* collection the pair last put for it, and saving the same pair again
\* leaves the table as it is.
C18_IdempotentUpsert ==
    /\ \A s \in DOMAIN lastPut : Row(cache, s) = PutRow(s)
    /\ DOMAIN cache = DOMAIN lastPut
    /\ (pc = "finish" /\ last_id # None) =>
          save(cache, add_history(history, name, "_id", last_id)) = cache

C18_Witness ==
    /\ pc = "finish" /\ last_id # None
    /\ name \in DOMAIN wmBefore
    /\ cache[name] # wmBefore[name]

\* C19: a cache row is never removed, and a FetchCollection call for a
\* collection that has a cache row reads a marker for it after load.
C19_NeverDeleted ==
    /\ [][DOMAIN cache \subseteq DOMAIN cache']_vars
    /\ [](InFetch =>
            /\ \A s \in DOMAIN cache : get_history(history, s) # NoPair
            /\ name \in DOMAIN wmBefore => marker_pair # NoPair)

C19_Witness ==
    /\ pc = "iter" /\ invocations = 2
    /\ name \in DOMAIN wmBefore
    /\ marker_pair # NoPair

\* C20: under use_timeshift, with the credentials present, a document whose
\* timeshift field is neither a datetime nor an ObjectId nor a string is
\* pushed and the loop goes on to the next document.
C20_WeirdFieldPushed ==
    [][(/\ pc = "iter" /\ result # << >> /\ use_timeshift /\ creds = "ok"
        /\ Get(Head(result), timeshift_field).k \notin {"date", "oid", "str", "code"})
       => (/\ pc' = "iter"
           /\ result' = Tail(result)
           /\ Head(result) \in Pushed(sessions', watchpoint))]_vars

\* the documents find() matches for a collection, given the rows of the cache
NewDocs(c) ==
    LET n == c.collection
    IN  Find(coll[n], IF n \in DOMAIN cache
                      THEN <<cache[n][1], pickle_loads(cache[n][2])>>
                      ELSE NoPair)

\* C21: with use_timeshift false and the credentials present, whether
\* timeshift_field is configured or not, a FetchCollection call for a
\* collection with new documents issues the query; while it runs it has at
\* most one session, opened without timeshift and not yet committed; when it
\* has returned, one session holds all documents of the cursor in ascending
\* order and has been committed exactly once.
C21_NoBucketingOneSession ==
    /\ [][(/\ pc = "loop" /\ idx <= Len(collection_config)
            /\ cc.enabled /\ ~ cc.use_timeshift /\ creds = "ok"
            /\ NewDocs(cc) # {})
          => (/\ pc' = "iter"
              /\ name \in queried'
              /\ {yielded'[i] : i \in 1..Len(yielded')} = NewDocs(cc))]_vars
    /\ []((InFetch /\ ~ use_timeshift /\ creds = "ok") =>
            LET ss == SessionsOf(watchpoint)
            IN  /\ Len(ss) <= 1
                /\ \A i \in 1..Len(ss) :
                      /\ ss[i].timeshift = 0
                      /\ ss[i].commits = 0
                      /\ ss[i].recs = SubSeq(yielded, 1, Len(ss[i].recs)))
    /\ []((Returned /\ ~ ranCfg.use_timeshift /\ creds = "ok" /\ yielded # << >>) =>
            LET ss == SessionsOf(ranCfg.dataculpa_watchpoint)
            IN  /\ Len(ss) = 1
                /\ ss[1].timeshift = 0
                /\ ss[1].commits = 1
                /\ ss[1].recs = yielded
                /\ \A i, j \in 1..Len(yielded) :
                      i < j => ~ BsonLess(Get(yielded[j], ranCfg.timeshift_field),
                                          Get(yielded[i], ranCfg.timeshift_field)))

====
